---- MODULE Spec2Model ----
(***************************************************************************)
(* Model of ai_krishi_rakshak.py: the pest-severity estimator              *)
(* (detect_pests), the treatment catalog (recommend_natural_treatment),    *)
(* the guidance formatter (guide_farmer), the effectiveness tracker        *)
(* (track_effectiveness) and the orchestrator (krishi_rakshak).            *)
(*                                                                         *)
(* Conventions.                                                            *)
(*  - A Python dict is a TLA+ record; `"k" in d` is "k" \in DOMAIN d.      *)
(*  - Python None is the record None.                                      *)
(*  - Floats are scaled integers: severity and severity_reduction are in   *)
(*    thousandths (round(x, 3)), confidence and the yield change are in    *)
(*    hundredths (round(x, 2)).  A ratio is kept as numerator/denominator  *)
(*    until it is rounded.                                                 *)
(*  - A pest label is a sequence of one-character strings, so that         *)
(*    str.lower() and the substring test are computed, not assumed.        *)
(*  - Catalog texts are opaque strings; the Hindi and Kannada texts and    *)
(*    the em dash of the guidance template are written in ASCII.           *)
(*  - An image is its shape and the bag of its pixels: the estimator only  *)
(*    counts pixels (np.sum over a mask), so pixel positions do not matter.*)
(***************************************************************************)
EXTENDS Integers, Sequences, FiniteSets, TLC

VARIABLES pc, image_before, image_after, lang, pest_name,
          diagnosis_before, treatment, guide, diagnosis_after, tracking,
          result, calls, fault

vars == <<pc, image_before, image_after, lang, pest_name,
          diagnosis_before, treatment, guide, diagnosis_after, tracking,
          result, calls, fault>>

None == [none |-> TRUE]

(***************************************************************************)
(* Bounds of the model.                                                    *)
(***************************************************************************)
\* estimator specification: image shapes 1..DetectMaxH x 1..DetectMaxW
DetectMaxH == 11
DetectMaxW == 11
\* orchestrator specification: image shapes 1..OrchMaxH x 1..OrchMaxW of at
\* most OrchMaxPixels pixels
OrchMaxH == 1
OrchMaxW == 7
OrchMaxPixels == 7
\* tracker specification: severities 0..TrackMaxSeverity thousandths
TrackMaxSeverity == 300
\* lookup specification: labels are at most MaxFragments fragments long
MaxFragments == 3

(***************************************************************************)
(* Arithmetic helpers: Python's round() on a float.                        *)
(***************************************************************************)
RECURSIVE GCD(_, _)
GCD(a, b) == IF b = 0 THEN a ELSE GCD(b, a % b)

RECURSIVE IsPowerOfTwo(_)
IsPowerOfTwo(n) == IF n = 1 THEN TRUE
                   ELSE IF n % 2 = 1 THEN FALSE
                   ELSE IsPowerOfTwo(n \div 2)

\* num/den (den > 0) is a binary fraction, i.e. the float holds it exactly
ExactFloat(num, den) ==
    LET a == IF num < 0 THEN -num ELSE num
    IN  IsPowerOfTwo(den \div GCD(a, den))

\* round-half-to-even of the rational num/den (den > 0) to an integer
RoundHalfEven(num, den) ==
    LET q == num \div den
        r == num % den
    IN  IF 2 * r < den THEN q
        ELSE IF 2 * r > den THEN q + 1
        ELSE IF q % 2 = 0 THEN q ELSE q + 1

\* round(x, k) of the float nearest to num/(den * 10^k), as the set of
\* results the build can produce: Python rounds the float's exact value
\* half-to-even, so a decimal tie whose float is inexact goes the way of
\* the float's representation error (round(1/80, 3) = 0.013,
\* round(3/80, 3) = 0.037).
RoundFloat(num, den) ==
    LET q == num \div den
        r == num % den
    IN  IF 2 * r = den /\ ~ExactFloat(num, den)
        THEN {q, q + 1}
        ELSE {RoundHalfEven(num, den)}

(***************************************************************************)
(* Images and paths.                                                       *)
(***************************************************************************)
White    == <<255, 255, 255>>
Black    == <<0, 0, 0>>
Rust     == <<101, 79, 59>>     \* brown, not dark
DarkRed  == <<101, 0, 0>>       \* brown and dark
Olive    == <<100, 79, 59>>     \* red channel on the brown threshold
Grey     == <<50, 50, 50>>      \* channel mean on the dark threshold

DetectPalette == {White, Black, Rust, DarkRed, Olive, Grey}
OrchPalette   == {White, Black}

\* the image of shape hh x ww painted with a background colour and nfg
\* pixels of a second colour; px is the bag of the pixels
Painted(hh, ww, bg, fg, nfg) ==
    [h |-> hh, w |-> ww,
     px |-> IF bg = fg \/ nfg = 0
            THEN [c \in {bg} |-> hh * ww]
            ELSE [c \in {bg, fg} |-> IF c = fg THEN nfg ELSE hh * ww - nfg]]

\* the painted images of shape 1..maxH x 1..maxW with at most maxPixels
\* pixels
Images(maxH, maxW, maxPixels, palette) ==
    UNION { IF hh * ww > maxPixels THEN {}
            ELSE { Painted(hh, ww, bg, fg, nfg) :
                     bg \in palette, fg \in palette, nfg \in 0..(hh * ww - 1) } :
            hh \in 1..maxH, ww \in 1..maxW }

NoImage == [h |-> 0, w |-> 0, px |-> [c \in {} |-> 0]]

\* a path argument: None, the empty string, a missing file, a file that
\* is not an image, or a file holding an image
NonePath    == [kind |-> "None", img |-> NoImage]
EmptyPath   == [kind |-> "empty", img |-> NoImage]
MissingPath == [kind |-> "missing", img |-> NoImage]
CorruptPath == [kind |-> "corrupt", img |-> NoImage]
ImagePath(i) == [kind |-> "image", img |-> i]

BadPaths == {NonePath, EmptyPath, MissingPath, CorruptPath}

\* Python truthiness of a path argument (`if image_after:`)
Truthy(path) == path.kind \notin {"None", "empty"}

\* Image.open(path).convert("RGB") succeeds
Openable(path) == path.kind = "image"

OpenError(path) ==
    CASE path.kind = "None"    -> "'NoneType' object has no attribute 'read'"
      [] path.kind = "empty"   -> "[Errno 2] No such file or directory: ''"
      [] path.kind = "missing" -> "[Errno 2] No such file or directory"
      [] OTHER                 -> "cannot identify image file"

(***************************************************************************)
(* 1. detect_pests                                                         *)
(***************************************************************************)
NoPestLabel ==
    <<"N","o"," ","s","i","g","n","i","f","i","c","a","n","t"," ","p","e","s","t">>
EarlyLabel ==
    <<"E","a","r","l","y"," ","l","e","a","f"," ","m","i","n","e","r"," ","o","r"," ","m","i","n","o","r"," ","c","h","e","w","i","n","g"," ","p","e","s","t">>
SevereLabel ==
    <<"S","e","v","e","r","e"," ","l","e","a","f"," ","m","i","n","e","r"," ","/"," ","c","a","t","e","r","p","i","l","l","a","r"," ","i","n","f","e","s","t","a","t","i","o","n">>

\* (np_img[:,:,0] > 100) & (np_img[:,:,1] < 80) & (np_img[:,:,2] < 60)
IsBrown(p) == p[1] > 100 /\ p[2] < 80 /\ p[3] < 60

\* np.mean(np_img, axis=2) < 50: the mean of three bytes is sum/3
IsDark(p) == p[1] + p[2] + p[3] < 3 * 50

\* np.sum(mask): the number of pixels of the image the mask selects
RECURSIVE SumBag(_, _)
SumBag(px, S) == IF S = {} THEN 0
                 ELSE LET c == CHOOSE x \in S : TRUE
                      IN  px[c] + SumBag(px, S \ {c})

CountBrown(np_img) == SumBag(np_img.px, {c \in DOMAIN np_img.px : IsBrown(c)})

CountDark(np_img) == SumBag(np_img.px, {c \in DOMAIN np_img.px : IsDark(c)})

\* mutant: the two thresholds are exchanged
ClassifySwapped(num, den) ==
    IF num * 100 < 15 * den THEN <<NoPestLabel, "N/A">>
    ELSE IF num * 100 < 5 * den THEN <<EarlyLabel, "early">>
    ELSE <<SevereLabel, "advanced">>

\* mutant: the thresholds are inclusive (<= instead of <)
ClassifyInclusive(num, den) ==
    IF num * 100 <= 5 * den THEN <<NoPestLabel, "N/A">>
    ELSE IF num * 100 <= 15 * den THEN <<EarlyLabel, "early">>
    ELSE <<SevereLabel, "advanced">>

\* the if/elif/else on damage_ratio = num/den: <<pest, life_stage>>
Classify(num, den) ==
    IF num * 100 < 5 * den THEN <<NoPestLabel, "N/A">>
    ELSE IF num * 100 < 15 * den THEN <<EarlyLabel, "early">>
    ELSE <<SevereLabel, "advanced">>

\* random.uniform(0.5, 0.9) rounded to 2 decimals, in hundredths
ConfidenceDraws == {50, 90}

\* the values detect_pests can return for a path
detect_pests(image_path) ==
    IF ~Openable(image_path)
    THEN { [error |-> "Could not open image: " \o OpenError(image_path)] }
    ELSE LET np_img == image_path.img
             total_pixels == np_img.h * np_img.w
             brown == CountBrown(np_img)
             dark == CountDark(np_img)
             class == Classify(brown + dark, total_pixels)
         IN  { [pest |-> class[1],
                life_stage |-> class[2],
                confidence |-> confidence,
                severity |-> severity,
                pixels |-> [total |-> total_pixels, brown |-> brown,
                            dark |-> dark]] :
                 confidence \in ConfidenceDraws,
                 severity \in RoundFloat((brown + dark) * 1000, total_pixels) }

(***************************************************************************)
(* 2. recommend_natural_treatment                                          *)
(***************************************************************************)
LeafMinerTreatments ==
    [en |-> [title |-> "Neem Oil Spray",
             details |-> "Mix 50 ml neem oil + 5 g soap in 1L water; spray every 7 days.",
             type |-> "bio-pesticide",
             notes |-> "Targets larvae without harming beneficial insects."],
     hi |-> [title |-> "hi: Neem tel chhidkaav",
             details |-> "hi: 50 ml neem tel + 5 g sabun 1L pani; har 7 din.",
             type |-> "hi: jaiv keetnashak",
             notes |-> "hi: larva ko nishana banata hai."],
     kn |-> [title |-> "kn: Neem enne simpadane",
             details |-> "kn: 50 ml neem enne + 5 g sabunu 1L neeru; prati 7 dina.",
             type |-> "kn: jaiva keetanashaka",
             notes |-> "kn: larvagalannu guriyagisuttade."]]

CaterpillarTreatments ==
    [en |-> [title |-> "Bt Spray (Bacillus thuringiensis)",
             details |-> "Dilute 2g Bt powder per liter; apply in evening hours.",
             type |-> "microbial pesticide",
             notes |-> "Highly specific and environmentally safe."],
     hi |-> [title |-> "hi: Bt chhidkaav (Bacillus thuringiensis)",
             details |-> "hi: prati liter 2 g Bt powder; shaam ke samay.",
             type |-> "hi: sukshmjeev keetnashak",
             notes |-> "hi: atyadhik vishisht aur surakshit."],
     kn |-> [title |-> "kn: Bt simpadane (Bacillus thuringiensis)",
             details |-> "kn: prati liter 2 g Bt pudi; sanje samaya.",
             type |-> "kn: sukshmanu keetanashaka",
             notes |-> "kn: bahala nikharavada mattu surakshita."]]

DefaultTreatments ==
    [en |-> [title |-> "Garlic-Chili Spray",
             details |-> "Crush 50g garlic + 20g green chili in 1L water, filter & spray.",
             type |-> "natural repellent",
             notes |-> "Effective against early-stage chewing pests."],
     hi |-> [title |-> "hi: Lahsun-mirch chhidkaav",
             details |-> "hi: 50 g lahsun aur 20 g hari mirch 1L pani.",
             type |-> "hi: prakritik keet pratirodhak",
             notes |-> "hi: prarambhik charan ke keeton ke khilaf prabhavi."],
     kn |-> [title |-> "kn: Bellulli-menasina simpadane",
             details |-> "kn: 50 g bellulli mattu 20 g hasimenasu 1L neeru.",
             type |-> "kn: sahaja keeta pratirodhaka",
             notes |-> "kn: arambhika hantada keetagala viruddha parinamakari."]]

treatments ==
    ("leaf miner" :> LeafMinerTreatments) @@
    ("caterpillar" :> CaterpillarTreatments) @@
    ("default" :> DefaultTreatments)

LeafMinerKey == <<"l","e","a","f"," ","m","i","n","e","r">>
CaterpillarKey == <<"c","a","t","e","r","p","i","l","l","a","r">>

UpperLetters ==
    <<"A","B","C","D","E","F","G","H","I","J","K","L","M",
      "N","O","P","Q","R","S","T","U","V","W","X","Y","Z">>
LowerLetters ==
    <<"a","b","c","d","e","f","g","h","i","j","k","l","m",
      "n","o","p","q","r","s","t","u","v","w","x","y","z">>

\* str.lower() on one character
LowerChar(c) ==
    IF \E i \in 1..26 : UpperLetters[i] = c
    THEN LowerLetters[CHOOSE i \in 1..26 : UpperLetters[i] = c]
    ELSE c

\* mutant: the label is not lower-cased
LowerIdentity(s) == s

\* str.lower()
Lower(s) == [i \in 1..Len(s) |-> LowerChar(s[i])]

\* `sub in s` on strings
Contains(sub, s) ==
    \E i \in 0..(Len(s) - Len(sub)) : SubSeq(s, i + 1, i + Len(sub)) = sub

\* dict.get(key, default)
Get(d, key, default) == IF key \in DOMAIN d THEN d[key] ELSE default

\* mutant: "caterpillar" is tested before "leaf miner"
CategoryCaterpillarFirst(name) ==
    IF Contains(CaterpillarKey, Lower(name)) THEN "caterpillar"
    ELSE IF Contains(LeafMinerKey, Lower(name)) THEN "leaf miner"
    ELSE "default"

\* the catalog category the if/elif/else selects
Category(name) ==
    IF Contains(LeafMinerKey, Lower(name)) THEN "leaf miner"
    ELSE IF Contains(CaterpillarKey, Lower(name)) THEN "caterpillar"
    ELSE "default"

\* mutant: an unknown language falls back to the default category
recommend_fallback_default(name, lg) ==
    Get(treatments[Category(name)], lg, treatments["default"]["en"])

recommend_natural_treatment(name, lg) ==
    Get(treatments[Category(name)], lg, treatments[Category(name)]["en"])

(***************************************************************************)
(* 3. guide_farmer                                                         *)
(***************************************************************************)
guide_farmer(t) ==
    t["title"] \o " -- " \o t["details"] \o " (Note: " \o t["notes"] \o ")"

(***************************************************************************)
(* 4. track_effectiveness                                                  *)
(***************************************************************************)
\* an exception leaving a function
Raise(e) == [raise |-> e]

Raised(v) == "raise" \in DOMAIN v

Max(a, b) == IF a >= b THEN a ELSE b

\* mutant: the reduction is not clamped at 0
ReductionUnclamped(before, after) == before["severity"] - after["severity"]

\* reduction = max(0, before["severity"] - after["severity"]), thousandths
Reduction(before, after) == Max(0, before["severity"] - after["severity"])

\* severities are multiples of 0.001, so the exact results below are
\* multiples of 0.001 and of 0.01 and the float error cannot reach a tie
track_effectiveness(before, after) ==
    IF "severity" \notin DOMAIN before \/ "severity" \notin DOMAIN after
    THEN Raise("KeyError: 'severity'")
    ELSE LET reduction == Reduction(before, after)
             \* (reduction * 0.8 - before * 0.5) * 100 as num/den percent
             yield_num == (reduction * 8 - before["severity"] * 5) * 100
             yield_den == 1000 * 10
         IN  ("severity_reduction" :> RoundHalfEven(reduction * 1000, 1000)) @@
             ("estimated_yield_change_%" :>
                  RoundHalfEven(yield_num * 100, yield_den))

(***************************************************************************)
(* Estimator specification: one call of detect_pests on any image.         *)
(***************************************************************************)
InitDetect ==
    /\ pc = "detect"
    /\ \/ image_before \in BadPaths
       \/ \E hh \in 1..DetectMaxH, ww \in 1..DetectMaxW,
             bg \in DetectPalette, fg \in DetectPalette :
             \E nfg \in 0..(hh * ww - 1) :
                image_before = ImagePath(Painted(hh, ww, bg, fg, nfg))
    /\ image_after = NonePath
    /\ lang = "en"
    /\ pest_name = <<>>
    /\ diagnosis_before = None
    /\ treatment = None
    /\ guide = ""
    /\ diagnosis_after = None
    /\ tracking = None
    /\ result = None
    /\ calls = <<>>
    /\ fault = "none"

Detect ==
    /\ pc = "detect"
    /\ \E d \in detect_pests(image_before) : diagnosis_before' = d
    /\ calls' = Append(calls, "detect_pests")
    /\ pc' = "done"
    /\ UNCHANGED <<image_before, image_after, lang, pest_name, treatment,
                   guide, diagnosis_after, tracking, result, fault>>

NextDetect == Detect

SpecDetect == InitDetect /\ [][NextDetect]_vars

(***************************************************************************)
(* Lookup specification: one call of recommend_natural_treatment on any    *)
(* label and language.                                                     *)
(***************************************************************************)
Fragments ==
    { <<"L","e","a","f"," ","M","i","n","e","r">>,
      <<"L","E","A","F">>,
      <<"l","e","a","f">>,
      <<" ","m","i","n","e","r">>,
      <<"C","a","t","e","r","p","i","l","l","a","r">>,
      <<"c","a","t","e","r","p","i","l","l","a","r">>,
      <<"a","p","h","i","d">>,
      <<" ">> }

RECURSIVE Concat(_)
Concat(fs) == IF fs = <<>> THEN <<>> ELSE Head(fs) \o Concat(Tail(fs))

Langs == {"en", "hi", "kn", "fr", "EN"}

InitLookup ==
    /\ pc = "lookup"
    /\ \E n \in 0..MaxFragments :
          \E fs \in [1..n -> Fragments] : pest_name = Concat(fs)
    /\ lang \in Langs
    /\ image_before = NonePath
    /\ image_after = NonePath
    /\ diagnosis_before = None
    /\ treatment = None
    /\ guide = ""
    /\ diagnosis_after = None
    /\ tracking = None
    /\ result = None
    /\ calls = <<>>
    /\ fault = "none"

Lookup ==
    /\ pc = "lookup"
    /\ treatment' = recommend_natural_treatment(pest_name, lang)
    /\ calls' = Append(calls, "recommend_natural_treatment")
    /\ pc' = "done"
    /\ UNCHANGED <<image_before, image_after, lang, pest_name,
                   diagnosis_before, guide, diagnosis_after, tracking,
                   result, fault>>

NextLookup == Lookup

SpecLookup == InitLookup /\ [][NextLookup]_vars

(***************************************************************************)
(* Tracker specification: one call of track_effectiveness on any pair of   *)
(* severity reports.                                                       *)
(***************************************************************************)
InitTrack ==
    /\ pc = "track_only"
    /\ \E b \in 0..TrackMaxSeverity, a \in 0..TrackMaxSeverity :
          /\ diagnosis_before = [severity |-> b]
          /\ diagnosis_after = [severity |-> a]
    /\ image_before = NonePath
    /\ image_after = NonePath
    /\ lang = "en"
    /\ pest_name = <<>>
    /\ treatment = None
    /\ guide = ""
    /\ tracking = None
    /\ result = None
    /\ calls = <<>>
    /\ fault = "none"

TrackOnly ==
    /\ pc = "track_only"
    /\ tracking' = track_effectiveness(diagnosis_before, diagnosis_after)
    /\ calls' = Append(calls, "track_effectiveness")
    /\ pc' = "done"
    /\ UNCHANGED <<image_before, image_after, lang, pest_name,
                   diagnosis_before, treatment, guide, diagnosis_after,
                   result, fault>>

NextTrack == TrackOnly

SpecTrack == InitTrack /\ [][NextTrack]_vars

(***************************************************************************)
(* 5. krishi_rakshak: the orchestrator, statement by statement.            *)
(***************************************************************************)
OrchPaths == {ImagePath(i) : i \in Images(OrchMaxH, OrchMaxW, OrchMaxPixels, OrchPalette)}
                \cup BadPaths

Init ==
    /\ pc = "call"
    /\ image_before \in OrchPaths
    /\ image_after \in OrchPaths
    /\ lang \in Langs
    /\ pest_name = <<>>
    /\ diagnosis_before = None
    /\ treatment = None
    /\ guide = ""
    /\ diagnosis_after = None
    /\ tracking = None
    /\ result = None
    /\ calls = <<>>
    /\ fault = "none"

\* diagnosis_before = detect_pests(image_before)
DetectBefore ==
    /\ pc = "call"
    /\ \E d \in detect_pests(image_before) : diagnosis_before' = d
    /\ calls' = Append(calls, "detect_pests")
    /\ pc' = "check"
    /\ UNCHANGED <<image_before, image_after, lang, pest_name, treatment,
                   guide, diagnosis_after, tracking, result, fault>>

\* mutant: the error is returned wrapped in a report
ReturnErrorWrapped ==
    /\ pc = "check"
    /\ "error" \in DOMAIN diagnosis_before
    /\ result' = [diagnosis |-> diagnosis_before, treatment |-> None,
                  guidance |-> "", tracking |-> None]
    /\ pc' = "returned"
    /\ UNCHANGED <<image_before, image_after, lang, pest_name,
                   diagnosis_before, treatment, guide, diagnosis_after,
                   tracking, calls, fault>>

\* if "error" in diagnosis_before: return diagnosis_before
ReturnError ==
    /\ pc = "check"
    /\ "error" \in DOMAIN diagnosis_before
    /\ result' = diagnosis_before
    /\ pc' = "returned"
    /\ UNCHANGED <<image_before, image_after, lang, pest_name,
                   diagnosis_before, treatment, guide, diagnosis_after,
                   tracking, calls, fault>>

\* treatment = recommend_natural_treatment(diagnosis_before["pest"], lang)
Recommend ==
    /\ pc = "check"
    /\ "error" \notin DOMAIN diagnosis_before
    /\ pest_name' = diagnosis_before["pest"]
    /\ treatment' = recommend_natural_treatment(diagnosis_before["pest"], lang)
    /\ calls' = Append(calls, "recommend_natural_treatment")
    /\ pc' = "guide"
    /\ UNCHANGED <<image_before, image_after, lang, diagnosis_before, guide,
                   diagnosis_after, tracking, result, fault>>

\* guide = guide_farmer(treatment)
Guide ==
    /\ pc = "guide"
    /\ guide' = guide_farmer(treatment)
    /\ calls' = Append(calls, "guide_farmer")
    /\ pc' = "after"
    /\ UNCHANGED <<image_before, image_after, lang, pest_name,
                   diagnosis_before, treatment, diagnosis_after, tracking,
                   result, fault>>

\* if image_after: diagnosis_after = detect_pests(image_after)
DetectAfter ==
    /\ pc = "after"
    /\ Truthy(image_after)
    /\ \E d \in detect_pests(image_after) : diagnosis_after' = d
    /\ calls' = Append(calls, "detect_pests")
    /\ pc' = "track"
    /\ UNCHANGED <<image_before, image_after, lang, pest_name,
                   diagnosis_before, treatment, guide, tracking, result,
                   fault>>

\* tracking = track_effectiveness(diagnosis_before, diagnosis_after);
\* a KeyError raised by the call is not caught and leaves krishi_rakshak
Track ==
    /\ pc = "track"
    /\ calls' = Append(calls, "track_effectiveness")
    /\ LET r == track_effectiveness(diagnosis_before, diagnosis_after)
       IN  IF Raised(r)
           THEN /\ fault' = r["raise"]
                /\ pc' = "raised"
                /\ UNCHANGED tracking
           ELSE /\ tracking' = r
                /\ pc' = "assemble"
                /\ UNCHANGED fault
    /\ UNCHANGED <<image_before, image_after, lang, pest_name,
                   diagnosis_before, treatment, guide, diagnosis_after,
                   result>>

\* else: diagnosis_after = None; tracking = None
SkipAfter ==
    /\ pc = "after"
    /\ ~Truthy(image_after)
    /\ diagnosis_after' = None
    /\ tracking' = None
    /\ pc' = "assemble"
    /\ UNCHANGED <<image_before, image_after, lang, pest_name,
                   diagnosis_before, treatment, guide, result, calls, fault>>

\* the dict krishi_rakshak returns
Report(diagnosis, treat, guidance, track) ==
    [diagnosis |-> diagnosis, treatment |-> treat, guidance |-> guidance,
     tracking |-> track]

\* return {"diagnosis": ..., "treatment": ..., "guidance": ..., "tracking": ...}
Return ==
    /\ pc = "assemble"
    /\ result' = Report(diagnosis_before, treatment, guide, tracking)
    /\ pc' = "returned"
    /\ UNCHANGED <<image_before, image_after, lang, pest_name,
                   diagnosis_before, treatment, guide, diagnosis_after,
                   tracking, calls, fault>>

Next ==
    \/ DetectBefore
    \/ ReturnError
    \/ Recommend
    \/ Guide
    \/ DetectAfter
    \/ Track
    \/ SkipAfter
    \/ Return

Spec == Init /\ [][Next]_vars

(***************************************************************************)
(* Properties.                                                             *)
(***************************************************************************)
Range(f) == {f[k] : k \in DOMAIN f}

Succeeded(d) == d # None /\ "error" \notin DOMAIN d

IsSeverityReport(d) == {"pest", "severity"} \subseteq DOMAIN d

Terminated == pc \in {"returned", "raised"}

ReportKeys == {"diagnosis", "treatment", "guidance", "tracking"}

\* a letter of the label matches a (lower-case) letter of the keyword
\* whatever its case
SameLetter(c, k) ==
    c = k \/ \E n \in 1..26 : UpperLetters[n] = c /\ LowerLetters[n] = k

\* the label contains the keyword, case-insensitively
ContainsCI(key, s) ==
    \E i \in 0..(Len(s) - Len(key)) :
        \A j \in 1..Len(key) : SameLetter(s[i + j], key[j])

\* the category the spec's matching policy assigns to a label
PolicyCategory(s) ==
    IF ContainsCI(LeafMinerKey, s) THEN "leaf miner"
    ELSE IF ContainsCI(CaterpillarKey, s) THEN "caterpillar"
    ELSE "default"

\* C1: when the before estimation succeeds and a provided after path fails
\* to estimate, the call completes without a fault and returns the full
\* report with tracking empty, and the tracker is not run.
C1_AfterFailureTolerated ==
    (/\ Terminated
     /\ Succeeded(diagnosis_before)
     /\ Truthy(image_after)
     /\ ~Openable(image_after))
    => /\ pc = "returned"
       /\ fault = "none"
       /\ DOMAIN result = ReportKeys
       /\ result["diagnosis"] = diagnosis_before
       /\ result["treatment"] = treatment
       /\ result["guidance"] = guide
       /\ result["tracking"] = None
       /\ \A i \in 1..Len(calls) : calls[i] # "track_effectiveness"

\* C2: when the before estimation fails, the result is exactly the
\* estimator's error object and nothing but the first detect_pests call is
\* made, whatever the after path and the language.
C2_BeforeErrorShortCircuits ==
    (diagnosis_before # None /\ "error" \in DOMAIN diagnosis_before)
    => /\ pc \in {"check", "returned"}
       /\ calls = <<"detect_pests">>
       /\ treatment = None
       /\ guide = ""
       /\ diagnosis_after = None
       /\ tracking = None
       /\ fault = "none"
       /\ pc = "returned" => /\ result = diagnosis_before
                             /\ DOMAIN result = {"error"}

C2_Witness ==
    /\ pc = "returned"
    /\ DOMAIN result = {"error"}
    /\ Openable(image_after)
    /\ lang = "hi"

\* C3: the estimator classifies by (brown + dark) / total: below 0.05 no
\* pest, from 0.05 up to but not including 0.15 early leaf miner, from 0.15
\* on severe infestation; a black grid is severe with dark = total, a white
\* grid has no flagged pixel and no pest.
C3_Classification ==
    (pc = "done" /\ Succeeded(diagnosis_before))
    => LET d == diagnosis_before
           n == d["pixels"]["brown"] + d["pixels"]["dark"]
           t == d["pixels"]["total"]
           img == image_before.img
       IN  /\ t = img.h * img.w
           /\ 20 * n < t
                => d["pest"] = NoPestLabel /\ d["life_stage"] = "N/A"
           /\ (20 * n >= t /\ 20 * n < 3 * t)
                => d["pest"] = EarlyLabel /\ d["life_stage"] = "early"
           /\ 20 * n >= 3 * t
                => d["pest"] = SevereLabel /\ d["life_stage"] = "advanced"
           /\ DOMAIN img.px = {Black}
                => /\ d["pixels"]["dark"] = t
                   /\ d["pest"] = SevereLabel
                   /\ d["life_stage"] = "advanced"
           /\ DOMAIN img.px = {White}
                => /\ d["pixels"]["brown"] = 0
                   /\ d["pixels"]["dark"] = 0
                   /\ d["pest"] = NoPestLabel

\* a grid whose damage ratio is exactly 0.05, classed as early leaf miner
C3_Witness ==
    /\ pc = "done"
    /\ Succeeded(diagnosis_before)
    /\ diagnosis_before["pixels"]["total"] = 20
    /\ diagnosis_before["pixels"]["brown"] + diagnosis_before["pixels"]["dark"] = 1
    /\ diagnosis_before["pest"] = EarlyLabel

\* C4 (as stated): a report with no pest has life stage N/A and a reported
\* (rounded) severity strictly below 0.05.
C4_NoneBelowThreshold ==
    (/\ pc = "done"
     /\ Succeeded(diagnosis_before)
     /\ diagnosis_before["pest"] = NoPestLabel)
    => /\ diagnosis_before["life_stage"] = "N/A"
       /\ diagnosis_before["severity"] < 50

\* C4 (amended): a report with no pest has life stage N/A, a damage ratio
\* strictly below 0.05 before rounding and a reported severity of at most
\* 0.05.
C4_NoneAtMostThreshold ==
    (/\ pc = "done"
     /\ Succeeded(diagnosis_before)
     /\ diagnosis_before["pest"] = NoPestLabel)
    => LET d == diagnosis_before
       IN  /\ d["life_stage"] = "N/A"
           /\ 20 * (d["pixels"]["brown"] + d["pixels"]["dark"])
                 < d["pixels"]["total"]
           /\ d["severity"] <= 50

\* a report with no pest whose severity rounds up to 0.05
C4_Witness ==
    /\ pc = "done"
    /\ Succeeded(diagnosis_before)
    /\ diagnosis_before["pest"] = NoPestLabel
    /\ diagnosis_before["severity"] = 50

\* C5: every report has non-negative counts with brown + dark <= total and
\* a severity in [0, 1], also when pixels are both brown and dark.
C5_CountsWithinTotal ==
    (pc = "done" /\ Succeeded(diagnosis_before))
    => LET d == diagnosis_before
       IN  /\ d["pixels"]["brown"] >= 0
           /\ d["pixels"]["dark"] >= 0
           /\ d["pixels"]["brown"] + d["pixels"]["dark"] <= d["pixels"]["total"]
           /\ d["severity"] >= 0
           /\ d["severity"] <= 1000

\* C6: the tracker returns the reduction clamped at 0 and the yield change
\* (reduction * 0.8 - before * 0.5) * 100 computed from it; before 0.20 and
\* after 0.05 give 0.150 and 2.00.
C6_TrackFormula ==
    pc = "done"
    => LET b == diagnosis_before["severity"]
           a == diagnosis_after["severity"]
           red == IF b > a THEN b - a ELSE 0
       IN  /\ tracking["severity_reduction"] = red
           /\ tracking["severity_reduction"] >= 0
           /\ tracking["estimated_yield_change_%"] = 8 * red - 5 * b
           /\ (b = 200 /\ a = 50)
                => /\ tracking["severity_reduction"] = 150
                   /\ tracking["estimated_yield_change_%"] = 200

\* the tracker has run on before 0.20 and after 0.05
C6_Witness ==
    /\ pc = "done"
    /\ diagnosis_before["severity"] = 200
    /\ diagnosis_after["severity"] = 50
    /\ tracking["severity_reduction"] = 150
    /\ tracking["estimated_yield_change_%"] = 200

\* C7: the lookup never fails and dispatches on a case-insensitive
\* substring with fixed priority: leaf miner, then caterpillar, then the
\* default garlic-chili record.
C7_KeywordDispatch ==
    pc = "done"
    => /\ ContainsCI(LeafMinerKey, pest_name)
            => treatment \in Range(LeafMinerTreatments)
       /\ (~ContainsCI(LeafMinerKey, pest_name)
             /\ ContainsCI(CaterpillarKey, pest_name))
            => treatment \in Range(CaterpillarTreatments)
       /\ (~ContainsCI(LeafMinerKey, pest_name)
             /\ ~ContainsCI(CaterpillarKey, pest_name))
            => treatment \in Range(DefaultTreatments)

\* a label holding both keywords in mixed case gets the leaf-miner record
C7_Witness ==
    /\ pc = "done"
    /\ ContainsCI(LeafMinerKey, pest_name)
    /\ ContainsCI(CaterpillarKey, pest_name)
    /\ ~Contains(LeafMinerKey, pest_name)
    /\ treatment \in Range(LeafMinerTreatments)

\* C8: for a language outside the catalog (en, hi, kn) the lookup returns
\* the en record of the label's category; for a catalog language it returns
\* that language's record of the category.
C8_LocaleFallback ==
    pc = "done"
    => LET records == treatments[PolicyCategory(pest_name)]
       IN  /\ lang \notin {"en", "hi", "kn"} => treatment = records["en"]
           /\ lang \in {"en", "hi", "kn"} => treatment = records[lang]

\* an unknown language on a caterpillar label gets the English Bt record
C8_Witness ==
    /\ pc = "done"
    /\ lang = "fr"
    /\ PolicyCategory(pest_name) = "caterpillar"
    /\ treatment["title"] = "Bt Spray (Bacillus thuringiensis)"

\* C9: with an after path and two successful estimations the returned
\* report holds the after report besides the before report, the treatment,
\* the guidance and the effectiveness report; without an after path the
\* after report and the effectiveness report are absent.
C9_ReportHoldsAfterDiagnosis ==
    (pc = "returned" /\ Succeeded(diagnosis_before))
    => /\ result["diagnosis"] = diagnosis_before
       /\ result["treatment"] = treatment
       /\ result["guidance"] = guide
       /\ (Truthy(image_after) /\ Succeeded(diagnosis_after))
            => /\ result["tracking"] = tracking
               /\ tracking # None
               /\ \E k \in DOMAIN result \ {"diagnosis", "guidance"} :
                     result[k] = diagnosis_after
       /\ ~Truthy(image_after)
            => /\ result["tracking"] = None
               /\ \A k \in DOMAIN result \ {"diagnosis", "guidance"} :
                     ~IsSeverityReport(result[k])

\* C10: the orchestrator pairs the no-pest label with the garlic-chili
\* record and both leaf-miner labels with the neem-oil record; it never
\* returns the Bt record.
C10_NoCaterpillarRecord ==
    treatment # None
    => /\ diagnosis_before["pest"] = NoPestLabel
            => treatment \in Range(DefaultTreatments)
       /\ diagnosis_before["pest"] \in {EarlyLabel, SevereLabel}
            => treatment \in Range(LeafMinerTreatments)
       /\ treatment \notin Range(CaterpillarTreatments)
       /\ (pc = "returned" /\ Succeeded(result))
            => result["treatment"] = treatment

\* a severe infestation reported with the Hindi neem-oil record
C10_Witness ==
    /\ pc = "returned"
    /\ Succeeded(result)
    /\ result["diagnosis"]["pest"] = SevereLabel
    /\ result["treatment"] = LeafMinerTreatments["hi"]

====
